---- MODULE Spec2Model ----
(***************************************************************************)
(* Model of the Video Transcriber CDK application: the naming utilities     *)
(* (cdk/lib/utils/naming.ts, constants.ts), the environment configuration   *)
(* (cdk/lib/config/environment-config.ts), the stack                        *)
(* (cdk/lib/video-transcriber-stack.ts) and the entry point                 *)
(* (cdk/bin/video-transcriber.ts).                                          *)
(*                                                                          *)
(* A JavaScript string is a sequence of one-character strings, so that      *)
(* template literals are concatenations and prefixes, lengths and           *)
(* collisions are computed rather than assumed.  The JavaScript value       *)
(* undefined is the one-element sequence <<"undefined">>, which is not a    *)
(* sequence of characters and so differs from every string.                 *)
(***************************************************************************)
EXTENDS Integers, Sequences, FiniteSets, TLC

VARIABLES
    processEnv,     \* process.env of the Node process
    environments,   \* the module-level map of environment-config.ts
    prev,           \* the naming call made before the most recent one
    last,           \* the most recent naming call
    tagCall,        \* the most recent call of getResourceTags
    envCall,        \* the most recent call of getEnvironmentConfig
    validCall,      \* the most recent call of isValidEnvironment
    builds,         \* the builds of the process: App, stack, template, outcome
    graph           \* the construct tree of a stack under construction

vars == <<processEnv, environments, prev, last, tagCall, envCall, validCall, builds,
          graph>>

Undefined == <<"undefined">>

\* a ?? b: only undefined falls back to b, the empty string is kept
OrElse_nullish(a, b) == IF a = Undefined THEN b ELSE a

\* `a || b` of JavaScript on strings and undefined: '' and undefined are falsy
OrElse(a, b) == IF a = Undefined \/ a = <<>> THEN b ELSE a

startsWith(s, p) == Len(s) >= Len(p) /\ SubSeq(s, 1, Len(p)) = p

----------------------------------------------------------------------------
(* constants.ts *)

RESOURCE_PREFIX ==
    <<"p", "r", "o", "d", "-", "a", "w", "s", "-", "c", "a", "p", "t", "i", "o", "n", "s">>

TABLE_NAMES ==
    [VIDEO   |-> <<"V", "i", "d", "e", "o", "D", "y", "n", "a", "m", "o", "D", "B", "T", "a", "b", "l", "e">>,
     CAPTION |-> <<"C", "a", "p", "t", "i", "o", "n", "D", "y", "n", "a", "m", "o", "D", "B", "T", "a", "b", "l", "e">>,
     CONFIG  |-> <<"C", "o", "n", "f", "i", "g", "D", "y", "n", "a", "m", "o", "D", "B", "T", "a", "b", "l", "e">>]

BUCKET_SUFFIXES ==
    [VIDEO      |-> <<"v", "i", "d", "e", "o">>,
     AUDIO      |-> <<"a", "u", "d", "i", "o">>,
     TRANSCRIBE |-> <<"t", "r", "a", "n", "s", "c", "r", "i", "b", "e">>,
     PUBLIC     |-> <<"p", "u", "b", "l", "i", "c">>]

----------------------------------------------------------------------------
(* naming.ts *)

\* the composed name cut at the 64 characters a function name may have
getLambdaFunctionName_truncated(functionName) ==
    SubSeq(RESOURCE_PREFIX \o <<"-">> \o functionName, 1,
           IF Len(RESOURCE_PREFIX) + 1 + Len(functionName) > 64
               THEN 64
               ELSE Len(RESOURCE_PREFIX) + 1 + Len(functionName))

\* `${RESOURCE_PREFIX}-${functionName}`
getLambdaFunctionName(functionName) ==
    RESOURCE_PREFIX \o <<"-">> \o functionName

\* the log group named after the logical name of the function
getLambdaLogGroupName_logical(functionName) ==
    <<"/", "a", "w", "s", "/", "l", "a", "m", "b", "d", "a", "/">> \o functionName

\* `/aws/lambda/${getLambdaFunctionName(functionName)}`
getLambdaLogGroupName(functionName) ==
    <<"/", "a", "w", "s", "/", "l", "a", "m", "b", "d", "a", "/">>
        \o getLambdaFunctionName(functionName)

\* the region taken from the process environment (DEFAULT_REGION) instead of
\* the argument
getS3BucketName_defaultRegion(accountId, region, bucketType) ==
    RESOURCE_PREFIX \o <<"-">> \o accountId \o <<"-">>
        \o (IF processEnv.CDK_DEFAULT_REGION = Undefined \/ processEnv.CDK_DEFAULT_REGION = <<>>
                THEN <<"u", "s", "-", "e", "a", "s", "t", "-", "1">>
                ELSE processEnv.CDK_DEFAULT_REGION)
        \o <<"-">> \o BUCKET_SUFFIXES[bucketType]

\* the separator between account and region left out
getS3BucketName_noSeparator(accountId, region, bucketType) ==
    RESOURCE_PREFIX \o <<"-">> \o accountId \o region
        \o <<"-">> \o BUCKET_SUFFIXES[bucketType]

\* the construct name appended to the bucket name
getS3BucketName_bucketSuffix(accountId, region, bucketType) ==
    RESOURCE_PREFIX \o <<"-">> \o accountId \o <<"-">> \o region
        \o <<"-">> \o BUCKET_SUFFIXES[bucketType] \o <<"-", "B", "u", "c", "k", "e", "t">>

\* `${RESOURCE_PREFIX}-${accountId}-${region}-${BUCKET_SUFFIXES[bucketType]}`
getS3BucketName(accountId, region, bucketType) ==
    RESOURCE_PREFIX \o <<"-">> \o accountId \o <<"-">> \o region
        \o <<"-">> \o BUCKET_SUFFIXES[bucketType]

\* the table name without the environment
getDynamoDBTableName_noEnvironment(environment, tableType) ==
    RESOURCE_PREFIX \o <<"-">> \o TABLE_NAMES[tableType]

\* `${RESOURCE_PREFIX}-${environment}-${TABLE_NAMES[tableType]}`
getDynamoDBTableName(environment, tableType) ==
    RESOURCE_PREFIX \o <<"-">> \o environment \o <<"-">> \o TABLE_NAMES[tableType]

\* the role name returned without the prefix
getIAMRoleName_bare(roleName) ==
    roleName

\* `${RESOURCE_PREFIX}-${roleName}`
getIAMRoleName(roleName) ==
    RESOURCE_PREFIX \o <<"-">> \o roleName

\* `${RESOURCE_PREFIX}-${environment}-api`
getAPIGatewayName(environment) ==
    RESOURCE_PREFIX \o <<"-">> \o environment \o <<"-", "a", "p", "i">>

\* `Video Transcriber CDN - ${environment}`
getCloudFrontDescription(environment) ==
    <<"V", "i", "d", "e", "o", " ", "T", "r", "a", "n", "s", "c", "r", "i", "b", "e", "r",
      " ", "C", "D", "N", " ", "-", " ">> \o environment

\* A JavaScript object reference that may be undefined: the value undefined,
\* or an object with its own enumerable properties.
JsUndefined == [type |-> "undefined"]
JsObject(props) == [type |-> "object", props |-> props]

OwnKeys(obj) == IF obj.type = "object" THEN DOMAIN obj.props ELSE {}

\* { ...base, ...obj }: the properties of obj are copied over those of base;
\* spreading undefined copies nothing
Spread(base, obj) ==
    [k \in DOMAIN base \cup OwnKeys(obj) |->
        IF k \in OwnKeys(obj) THEN obj.props[k] ELSE base[k]]

\* { ...additionalTags, Application: .., Environment: .., ManagedBy: .. }:
\* the standard tags written after the spread
getResourceTags_standardLast(environment, additionalTags) ==
    Spread(IF additionalTags.type = "object"
              THEN additionalTags.props ELSE [k \in {} |-> <<>>],
           JsObject([Application |-> <<"V", "i", "d", "e", "o", "T", "r", "a", "n", "s", "c", "r", "i", "b", "e", "r">>,
                     Environment |-> environment,
                     ManagedBy   |-> <<"C", "D", "K">>]))

\* { Application: 'VideoTranscriber', Environment: environment,
\*   ManagedBy: 'CDK', ...additionalTags }
getResourceTags(environment, additionalTags) ==
    Spread([Application |-> <<"V", "i", "d", "e", "o", "T", "r", "a", "n", "s", "c", "r", "i", "b", "e", "r">>,
            Environment |-> environment,
            ManagedBy   |-> <<"C", "D", "K">>],
           additionalTags)

----------------------------------------------------------------------------
(* Inputs of the naming calls *)

MaxScopeLen == 2

ScopeAlphabet == {"1", "-"}

\* every string over ScopeAlphabet of at most MaxScopeLen characters
ScopeStrings ==
    UNION {[1..n -> ScopeAlphabet] : n \in 0..MaxScopeLen}

ACCOUNT_ID == <<"1", "2", "3", "4", "5", "6", "7", "8", "9", "0", "1", "2">>
US_EAST_1 == <<"u", "s", "-", "e", "a", "s", "t", "-", "1">>
EU_WEST_1 == <<"e", "u", "-", "w", "e", "s", "t", "-", "1">>

AccountIds == {ACCOUNT_ID, <<"9", "8", "7", "6", "5", "4", "3", "2", "1", "0", "9", "8">>}
Regions == {US_EAST_1, EU_WEST_1}

ENV_DEV == <<"d", "e", "v">>
ENV_STAGING == <<"s", "t", "a", "g", "i", "n", "g">>
ENV_PROD == <<"p", "r", "o", "d">>
ENV_TEST == <<"t", "e", "s", "t">>

EnvironmentNames == {ENV_DEV, ENV_STAGING, ENV_PROD, ENV_TEST}

\* The length ceilings of the resource kinds (spec 4.1 (d)); the program
\* holds none of them.
NameLimit ==
    [getLambdaFunctionName |-> 64,
     getLambdaLogGroupName |-> 512,
     getS3BucketName       |-> 63,
     getDynamoDBTableName  |-> 255,
     getIAMRoleName        |-> 64]

\* the shortest function name whose composed physical name passes the ceiling
LongName ==
    [i \in 1..(NameLimit.getLambdaFunctionName - Len(RESOURCE_PREFIX)) |-> "x"]

FunctionNames ==
    {<<"e", "x", "t", "r", "a", "c", "t", "a", "u", "d", "i", "o">>,
     <<"t", "r", "a", "n", "s", "c", "r", "i", "b", "e", "a", "u", "d", "i", "o">>,
     LongName}

RoleNames ==
    {<<"c", "o", "m", "m", "o", "n">>,
     <<"m", "e", "d", "i", "a", "C", "o", "n", "v", "e", "r", "t">>,
     LongName}

\* process.env.CDK_DEFAULT_REGION: unset, a region, or set to the empty string
RegionValues == {Undefined, EU_WEST_1, <<>>}

----------------------------------------------------------------------------
(* The naming calls of a process.  A call record keeps the function, its    *)
(* arguments, the environment of the build that made the call, the logical  *)
(* name the physical name was asked for, and the returned string.           *)

NoCall ==
    [fn |-> "none", args |-> <<>>, environment |-> Undefined,
     logical |-> <<>>, result |-> <<>>]

Call(fn, args, environment, logical, result) ==
    [fn |-> fn, args |-> args, environment |-> environment,
     logical |-> logical, result |-> result]

CallGetLambdaFunctionName ==
    /\ \E e \in EnvironmentNames, n \in FunctionNames :
          last' = Call("getLambdaFunctionName", <<n>>, e, n, getLambdaFunctionName(n))
    /\ prev' = last
    /\ UNCHANGED <<processEnv, environments, tagCall, envCall, builds, graph, validCall>>

CallGetLambdaLogGroupName ==
    /\ \E e \in EnvironmentNames, n \in FunctionNames :
          last' = Call("getLambdaLogGroupName", <<n>>, e, n, getLambdaLogGroupName(n))
    /\ prev' = last
    /\ UNCHANGED <<processEnv, environments, tagCall, envCall, builds, graph, validCall>>

CallGetS3BucketName ==
    /\ \E a \in AccountIds, r \in Regions, t \in DOMAIN BUCKET_SUFFIXES :
          last' = Call("getS3BucketName", <<a, r, t>>, Undefined, BUCKET_SUFFIXES[t],
                       getS3BucketName(a, r, t))
    /\ prev' = last
    /\ UNCHANGED <<processEnv, environments, tagCall, envCall, builds, graph, validCall>>

\* getS3BucketName on every scope that ScopeStrings holds; two calls are
\* made, which is every pair of scopes
CallGetS3BucketNameScoped ==
    /\ prev = NoCall
    /\ \E a \in ScopeStrings, r \in ScopeStrings, t \in DOMAIN BUCKET_SUFFIXES :
          last' = Call("getS3BucketName", <<a, r, t>>, Undefined, BUCKET_SUFFIXES[t],
                       getS3BucketName(a, r, t))
    /\ prev' = last
    /\ UNCHANGED <<processEnv, environments, tagCall, envCall, builds, graph, validCall>>

\* the longest region name of the calls of CallGetS3BucketNameBounded
MaxRegionLen == 14

\* the first n characters of the pattern repeated
Repeated(pattern, n) ==
    [i \in 1..n |-> pattern[((i - 1) % Len(pattern)) + 1]]

\* region names of lowercase letters, digits and hyphens, of every length
\* up to MaxRegionLen
BoundedRegions ==
    {Repeated(p, n) :
        p \in {<<"a", "p", "-", "s", "o", "u", "t", "h", "e", "a", "s", "t", "-", "1">>,
               <<"z">>, <<"-">>, <<"9">>, <<"0", "a", "-">>},
        n \in 0..MaxRegionLen}

\* account ids of twelve digits
TwelveDigitAccountIds ==
    AccountIds \cup {Repeated(<<"0">>, Len(ACCOUNT_ID)), Repeated(<<"9">>, Len(ACCOUNT_ID))}

\* getS3BucketName on the account ids and regions above, one call
CallGetS3BucketNameBounded ==
    /\ last = NoCall
    /\ \E a \in TwelveDigitAccountIds, r \in BoundedRegions, t \in DOMAIN BUCKET_SUFFIXES :
          last' = Call("getS3BucketName", <<a, r, t>>, Undefined, BUCKET_SUFFIXES[t],
                       getS3BucketName(a, r, t))
    /\ prev' = last
    /\ UNCHANGED <<processEnv, environments, tagCall, envCall, builds, graph, validCall>>

CallGetDynamoDBTableName ==
    /\ \E e \in EnvironmentNames, t \in DOMAIN TABLE_NAMES :
          last' = Call("getDynamoDBTableName", <<e, t>>, e, TABLE_NAMES[t],
                       getDynamoDBTableName(e, t))
    /\ prev' = last
    /\ UNCHANGED <<processEnv, environments, tagCall, envCall, builds, graph, validCall>>

\* the environment strings of the table names: the strings of ScopeStrings,
\* environment names, and strings that end like a table name
TableEnvironments ==
    ScopeStrings
    \cup {ENV_DEV, ENV_PROD, <<"d", "e", "v", "-">>}
    \cup {ENV_DEV \o <<"-">> \o TABLE_NAMES[t] : t \in DOMAIN TABLE_NAMES}

\* getDynamoDBTableName on every environment of TableEnvironments; two calls
\* are made, which is every pair of arguments
CallGetDynamoDBTableNameScoped ==
    /\ prev = NoCall
    /\ \E e \in TableEnvironments, t \in DOMAIN TABLE_NAMES :
          last' = Call("getDynamoDBTableName", <<e, t>>, e, TABLE_NAMES[t],
                       getDynamoDBTableName(e, t))
    /\ prev' = last
    /\ UNCHANGED <<processEnv, environments, tagCall, envCall, builds, graph, validCall>>

CallGetIAMRoleName ==
    /\ \E e \in EnvironmentNames, n \in RoleNames :
          last' = Call("getIAMRoleName", <<n>>, e, n, getIAMRoleName(n))
    /\ prev' = last
    /\ UNCHANGED <<processEnv, environments, tagCall, envCall, builds, graph, validCall>>

CallGetAPIGatewayName ==
    /\ \E e \in EnvironmentNames :
          last' = Call("getAPIGatewayName", <<e>>, e, <<"a", "p", "i">>,
                       getAPIGatewayName(e))
    /\ prev' = last
    /\ UNCHANGED <<processEnv, environments, tagCall, envCall, builds, graph, validCall>>

CallGetCloudFrontDescription ==
    /\ \E e \in EnvironmentNames :
          last' = Call("getCloudFrontDescription", <<e>>, e, <<"C", "D", "N">>,
                       getCloudFrontDescription(e))
    /\ prev' = last
    /\ UNCHANGED <<processEnv, environments, tagCall, envCall, builds, graph, validCall>>

\* the process environment is set from outside the program
SetProcessEnv ==
    /\ \E r \in RegionValues :
        /\ r # processEnv.CDK_DEFAULT_REGION
        /\ processEnv' = [processEnv EXCEPT !.CDK_DEFAULT_REGION = r]
    /\ UNCHANGED <<environments, prev, last, tagCall, envCall, builds, graph, validCall>>

\* the tags a caller passes: undefined, or any object over TagKeys
TagKeys == {"Application", "Environment", "ManagedBy", "Project"}
TagValues == {<<"m", "e", "d", "i", "a">>, ENV_PROD}

AdditionalTags ==
    {JsUndefined} \cup
    {JsObject(m) : m \in UNION {[K -> TagValues] : K \in SUBSET TagKeys}}

NoTagCall ==
    [called |-> FALSE, environment |-> Undefined, additionalTags |-> JsUndefined,
     result |-> [k \in {} |-> <<>>]]

CallGetResourceTags ==
    /\ \E e \in EnvironmentNames, a \in AdditionalTags :
          tagCall' = [called |-> TRUE, environment |-> e, additionalTags |-> a,
                      result |-> getResourceTags(e, a)]
    /\ UNCHANGED <<processEnv, environments, prev, last, envCall, builds, graph, validCall>>

----------------------------------------------------------------------------
(* environment-config.ts *)

EN_US == <<"e", "n", "-", "U", "S">>
ZH_CN == <<"z", "h", "-", "C", "N">>

\* RetentionDays.THREE_DAYS, ONE_WEEK and ONE_MONTH are the numbers of days;
\* an optional field that the literal does not set is absent from the record.
\* devConfig with the API cache switched on and no apiCacheTTL
devConfig_cached ==
    [name |-> ENV_DEV,
     transcribeLanguage |-> EN_US,
     logRetentionDays |-> 3,
     logLevel |-> "DEBUG",
     enableXRay |-> FALSE,
     dynamoDBBillingMode |-> "PAY_PER_REQUEST",
     s3ExpirationDays |-> 7,
     apiThrottleRateLimit |-> 100,
     apiThrottleBurstLimit |-> 200,
     enableAPICache |-> TRUE,
     cloudFrontPriceClass |-> "PriceClass_100",
     enableCloudFrontLogging |-> FALSE,
     removalPolicy |-> "DESTROY"]

devConfig ==
    [name |-> ENV_DEV,
     transcribeLanguage |-> EN_US,
     logRetentionDays |-> 3,
     logLevel |-> "DEBUG",
     enableXRay |-> FALSE,
     dynamoDBBillingMode |-> "PAY_PER_REQUEST",
     s3ExpirationDays |-> 7,
     apiThrottleRateLimit |-> 100,
     apiThrottleBurstLimit |-> 200,
     enableAPICache |-> FALSE,
     cloudFrontPriceClass |-> "PriceClass_100",
     enableCloudFrontLogging |-> FALSE,
     removalPolicy |-> "DESTROY"]

stagingConfig ==
    [name |-> ENV_STAGING,
     transcribeLanguage |-> EN_US,
     logRetentionDays |-> 7,
     logLevel |-> "INFO",
     enableXRay |-> TRUE,
     dynamoDBBillingMode |-> "PAY_PER_REQUEST",
     s3GlacierTransitionDays |-> 30,
     s3ExpirationDays |-> 90,
     apiThrottleRateLimit |-> 500,
     apiThrottleBurstLimit |-> 1000,
     enableAPICache |-> TRUE,
     apiCacheTTL |-> [minutes |-> 5],
     cloudFrontPriceClass |-> "PriceClass_100",
     enableCloudFrontLogging |-> TRUE,
     removalPolicy |-> "RETAIN"]

prodConfig ==
    [name |-> ENV_PROD,
     transcribeLanguage |-> EN_US,
     logRetentionDays |-> 30,
     logLevel |-> "WARN",
     enableXRay |-> TRUE,
     dynamoDBBillingMode |-> "PAY_PER_REQUEST",
     s3GlacierTransitionDays |-> 90,
     s3ExpirationDays |-> 365,
     apiThrottleRateLimit |-> 1000,
     apiThrottleBurstLimit |-> 2000,
     enableAPICache |-> TRUE,
     apiCacheTTL |-> [minutes |-> 10],
     cloudFrontPriceClass |-> "PriceClass_200",
     enableCloudFrontLogging |-> TRUE,
     removalPolicy |-> "RETAIN"]

\* the value of `environments` when the module has been loaded
environmentsLiteral ==
    [k \in {ENV_DEV, ENV_STAGING, ENV_PROD} |->
        IF k = ENV_DEV THEN devConfig
        ELSE IF k = ENV_STAGING THEN stagingConfig
        ELSE prodConfig]

UpperCase ==
    <<"A", "B", "C", "D", "E", "F", "G", "H", "I", "J", "K", "L", "M", "N", "O", "P", "Q", "R", "S", "T", "U", "V", "W", "X", "Y", "Z">>
LowerCase ==
    <<"a", "b", "c", "d", "e", "f", "g", "h", "i", "j", "k", "l", "m", "n", "o", "p", "q", "r", "s", "t", "u", "v", "w", "x", "y", "z">>

\* String.prototype.toLowerCase on the characters the model uses
toLowerCase(s) ==
    [i \in 1..Len(s) |->
        IF \E j \in 1..Len(UpperCase) : UpperCase[j] = s[i]
            THEN LowerCase[CHOOSE j \in 1..Len(UpperCase) : UpperCase[j] = s[i]]
            ELSE s[i]]

\* `environments` is an object literal, so its prototype is Object.prototype:
\* these names resolve on it although they are not own properties.
ObjectPrototypeNames ==
    {<<"c", "o", "n", "s", "t", "r", "u", "c", "t", "o", "r">>,
     <<"_", "_", "p", "r", "o", "t", "o", "_", "_">>,
     <<"t", "o", "S", "t", "r", "i", "n", "g">>,
     <<"t", "o", "L", "o", "c", "a", "l", "e", "S", "t", "r", "i", "n", "g">>,
     <<"v", "a", "l", "u", "e", "O", "f">>,
     <<"h", "a", "s", "O", "w", "n", "P", "r", "o", "p", "e", "r", "t", "y">>,
     <<"i", "s", "P", "r", "o", "t", "o", "t", "y", "p", "e", "O", "f">>,
     <<"p", "r", "o", "p", "e", "r", "t", "y", "I", "s", "E", "n", "u", "m", "e", "r", "a", "b", "l", "e">>}

\* obj[key]: the own property, else the member inherited from
\* Object.prototype (a function or an object, never a profile), else undefined
GetProperty(obj, key) ==
    IF key \in DOMAIN obj THEN [type |-> "profile", value |-> obj[key]]
    ELSE IF key \in ObjectPrototypeNames THEN [type |-> "inherited", name |-> key]
    ELSE JsUndefined

\* the lookup on own properties only (Object.hasOwn / a Map)
getEnvironmentConfig_ownOnly(environmentName) ==
    LET key == toLowerCase(environmentName) IN
    IF key \in DOMAIN environments
        THEN [threw |-> FALSE, value |-> [type |-> "profile", value |-> environments[key]]]
        ELSE [threw |-> TRUE, value |-> JsUndefined]

\* the lookup with the name as it was given: environments[environmentName]
getEnvironmentConfig_caseSensitive(environmentName) ==
    LET config == GetProperty(environments, environmentName) IN
    IF config.type = "undefined"
        THEN [threw |-> TRUE, value |-> JsUndefined]
        ELSE [threw |-> FALSE, value |-> config]

\* const config = environments[environmentName.toLowerCase()];
\* if (!config) throw new Error(`Unknown environment: ...`); return config;
getEnvironmentConfig(environmentName) ==
    LET config == GetProperty(environments, toLowerCase(environmentName)) IN
    IF config.type = "undefined"
        THEN [threw |-> TRUE, value |-> JsUndefined]
        ELSE [threw |-> FALSE, value |-> config]

toUpperChar(c) ==
    IF \E j \in 1..Len(LowerCase) : LowerCase[j] = c
        THEN UpperCase[CHOOSE j \in 1..Len(LowerCase) : LowerCase[j] = c]
        ELSE c

\* every spelling of s in upper and lower case
CaseVariants(s) ==
    {[i \in 1..Len(s) |-> IF f[i] THEN toUpperChar(s[i]) ELSE s[i]] :
        f \in [1..Len(s) -> BOOLEAN]}

EnvironmentInputs ==
    CaseVariants(ENV_DEV) \cup CaseVariants(ENV_STAGING) \cup CaseVariants(ENV_PROD)
    \cup ObjectPrototypeNames
    \cup {ENV_TEST, <<>>, <<"d", "e", "v", "e", "l", "o", "p", "m", "e", "n", "t">>,
          <<"C", "O", "N", "S", "T", "R", "U", "C", "T", "O", "R">>,
          <<"_", "_", "P", "R", "O", "T", "O", "_", "_">>}

NoEnvCall == [called |-> FALSE, name |-> Undefined, threw |-> FALSE, value |-> JsUndefined]

NoValidCall == [called |-> FALSE, name |-> Undefined, result |-> FALSE]

CallGetEnvironmentConfig ==
    /\ \E n \in EnvironmentInputs :
          LET r == getEnvironmentConfig(n) IN
          envCall' = [called |-> TRUE, name |-> n, threw |-> r.threw, value |-> r.value]
    /\ UNCHANGED <<processEnv, environments, prev, last, tagCall, builds, graph, validCall>>

\* key in obj: an own property or a member inherited from Object.prototype
HasProperty(obj, key) == key \in DOMAIN obj \/ key \in ObjectPrototypeNames

\* return environmentName.toLowerCase() in environments;
isValidEnvironment(environmentName) ==
    HasProperty(environments, toLowerCase(environmentName))

\* a caller asks whether a name is valid
CallIsValidEnvironment ==
    /\ ~validCall.called
    /\ ~envCall.called
    /\ \E n \in EnvironmentInputs :
          validCall' = [called |-> TRUE, name |-> n, result |-> isValidEnvironment(n)]
    /\ UNCHANGED <<processEnv, environments, prev, last, tagCall, envCall, builds, graph>>

\* and then looks the same name up
CallGetEnvironmentConfigChecked ==
    /\ validCall.called
    /\ ~envCall.called
    /\ LET r == getEnvironmentConfig(validCall.name) IN
          envCall' = [called |-> TRUE, name |-> validCall.name, threw |-> r.threw,
                      value |-> r.value]
    /\ UNCHANGED <<processEnv, environments, prev, last, tagCall, validCall, builds, graph>>

\* A caller writes a field of the profile it got from getEnvironmentConfig:
\* `getEnvironmentConfig(name).transcribeLanguage = v`.  The object returned
\* is the one the map holds (neither copied nor frozen, the fields of
\* EnvironmentConfig are not readonly), so the write is seen through both.
WriteProfile ==
    /\ envCall.called
    /\ envCall.value.type = "profile"
    /\ \E v \in {EN_US, ZH_CN} :
          LET key == toLowerCase(envCall.name) IN
          /\ v # environments[key].transcribeLanguage
          /\ environments' = [environments EXCEPT ![key].transcribeLanguage = v]
          /\ envCall' = [envCall EXCEPT !.value.value.transcribeLanguage = v]
    /\ UNCHANGED <<processEnv, prev, last, tagCall, builds, graph, validCall>>

----------------------------------------------------------------------------
(* video-transcriber-stack.ts *)

\* the unresolved region of a stack that was given no env.region; it is not
\* a string of characters
AWS_REGION == <<"Ref", "AWS::Region">>

NoStack == [type |-> "undefined"]
NoTemplate == [type |-> "undefined"]
NoProps ==
    [transcribeLanguage |-> Undefined, environment |-> Undefined,
     region |-> Undefined, tags |-> [k \in {} |-> <<>>]]

\* the region read from the process environment when the props give none
VideoTranscriberStack_envRegion(id, props) ==
    LET region == IF props.region = Undefined
                     THEN OrElse(processEnv.CDK_DEFAULT_REGION, AWS_REGION)
                     ELSE props.region
    IN  [threw |-> FALSE,
         stack |->
            [type |-> "object",
             stackName |-> id,
             region |-> region,
             tags |-> props.tags,
             outputs |->
                [StackName |-> [value |-> id],
                 Region |-> [value |-> region],
                 TranscribeLanguage |-> [value |-> props.transcribeLanguage]]]]

\* the language kept in a module-level variable that the first build of the
\* process sets and every later stack reads
VideoTranscriberStack_sharedLanguage(id, props) ==
    LET language == IF builds[1].props.transcribeLanguage # Undefined
                       THEN builds[1].props.transcribeLanguage
                       ELSE props.transcribeLanguage
    IN  [threw |-> FALSE,
         stack |->
            [type |-> "object",
             stackName |-> id,
             region |-> IF props.region = Undefined THEN AWS_REGION ELSE props.region,
             tags |-> props.tags,
             outputs |->
                [StackName |-> [value |-> id],
                 Region |-> [value |-> IF props.region = Undefined
                                          THEN AWS_REGION ELSE props.region],
                 TranscribeLanguage |-> [value |-> language]]]]

\* the stack with the TranscribeLanguage output set to the default language
\* instead of props.transcribeLanguage
VideoTranscriberStack_defaultLanguage(id, props) ==
    [threw |-> FALSE,
     stack |->
        [type |-> "object",
         stackName |-> id,
         region |-> IF props.region = Undefined THEN AWS_REGION ELSE props.region,
         tags |-> props.tags,
         outputs |->
            [StackName |-> [value |-> id],
             Region |-> [value |-> IF props.region = Undefined
                                      THEN AWS_REGION ELSE props.region],
             TranscribeLanguage |-> [value |-> ZH_CN]]]]

\* the constructor with the environment looked up in the configuration first
VideoTranscriberStack_validating(id, props) ==
    IF getEnvironmentConfig(props.environment).threw
        THEN [threw |-> TRUE, stack |-> NoStack]
        ELSE [threw |-> FALSE,
              stack |->
                 [type |-> "object",
                  stackName |-> id,
                  region |-> IF props.region = Undefined THEN AWS_REGION ELSE props.region,
                  tags |-> props.tags,
                  outputs |->
                     [StackName |-> [value |-> id],
                      Region |-> [value |-> IF props.region = Undefined
                                               THEN AWS_REGION ELSE props.region],
                      TranscribeLanguage |-> [value |-> props.transcribeLanguage]]]]

\* new VideoTranscriberStack(scope, id, props): super(scope, id, props) sets
\* the stack name, the region (props.env.region, else the unresolved region)
\* and the tags; three CfnOutput follow.  Nothing reads props.environment and
\* nothing throws.
VideoTranscriberStack(id, props) ==
    [threw |-> FALSE,
     stack |->
        [type |-> "object",
         stackName |-> id,
         region |-> IF props.region = Undefined THEN AWS_REGION ELSE props.region,
         tags |-> props.tags,
         outputs |->
            [StackName |-> [value |-> id],
             Region |-> [value |-> IF props.region = Undefined
                                      THEN AWS_REGION ELSE props.region],
             TranscribeLanguage |-> [value |-> props.transcribeLanguage]]]]

\* app.synth() / Template.fromStack(stack): the template of the stack, one
\* entry of Outputs for each CfnOutput
Synth(stack) ==
    [type |-> "object",
     Outputs |-> [n \in DOMAIN stack.outputs |-> [Value |-> stack.outputs[n].value]]]

----------------------------------------------------------------------------
(* The builds of the process: bin/video-transcriber.ts and the tests of     *)
(* test/video-transcriber.test.ts.                                          *)

MaxBuilds == 2

Builds == 1..MaxBuilds

STACK_ID == <<"V", "i", "d", "e", "o", "T", "r", "a", "n", "s", "c", "r", "i", "b", "e", "r", "S", "t", "a", "c", "k">>
TEST_STACK_ID == <<"T", "e", "s", "t", "S", "t", "a", "c", "k">>

\* the context values a command line can give: none, a value, the empty string
ContextLanguages == {Undefined, EN_US, <<>>}
ContextEnvironments == {Undefined, ENV_TEST, <<>>}

\* the props the tests give
TestLanguages == {EN_US, ZH_CN}
TestEnvironments == {ENV_TEST, ENV_DEV, <<>>}

NoBuild ==
    [pc |-> "idle", kind |-> "none",
     context |-> [transcribeLanguage |-> Undefined, environment |-> Undefined],
     props |-> NoProps, stack |-> NoStack, template |-> NoTemplate, exitCode |-> -1]

\* const app = new cdk.App();  (the context comes from the command line)
EntryNewApp(b) ==
    /\ builds[b].pc = "idle"
    /\ \E l \in ContextLanguages, e \in ContextEnvironments :
          builds' = [builds EXCEPT ![b] =
                        [@ EXCEPT !.pc = "app", !.kind = "cli",
                                  !.context = [transcribeLanguage |-> l,
                                               environment |-> e]]]
    /\ UNCHANGED <<processEnv, environments, prev, last, tagCall, envCall, graph, validCall>>

\* lines 9-29: the props from the context or the defaults, then the stack;
\* an exception of the constructor ends the process with a non-zero code
EntryNewStack(b) ==
    /\ builds[b].pc = "app"
    /\ builds[b].kind = "cli"
    /\ LET transcribeLanguage == OrElse(builds[b].context.transcribeLanguage, ZH_CN)
           environment == OrElse(builds[b].context.environment, ENV_DEV)
           props == [transcribeLanguage |-> transcribeLanguage,
                     environment |-> environment,
                     region |-> OrElse(processEnv.CDK_DEFAULT_REGION, US_EAST_1),
                     tags |-> [Project |-> <<"V", "i", "d", "e", "o", "T", "r", "a", "n", "s", "c", "r", "i", "b", "e", "r">>,
                               Environment |-> environment,
                               ManagedBy |-> <<"C", "D", "K">>]]
           made == VideoTranscriberStack(STACK_ID, props)
       IN  builds' = [builds EXCEPT ![b] =
                        IF made.threw
                            THEN [@ EXCEPT !.pc = "failed", !.props = props,
                                           !.exitCode = 1]
                            ELSE [@ EXCEPT !.pc = "stack", !.props = props,
                                           !.stack = made.stack]]
    /\ UNCHANGED <<processEnv, environments, prev, last, tagCall, envCall, graph, validCall>>

\* app.synth() reached whether or not the stack was constructed: the
\* template of an App without a stack has no outputs
EntrySynth_unguarded(b) ==
    /\ builds[b].pc \in {"app", "stack"}
    /\ builds[b].kind = "cli"
    /\ builds' = [builds EXCEPT ![b] =
                    [@ EXCEPT !.pc = "done",
                              !.template =
                                  IF builds[b].stack.type = "object"
                                      THEN Synth(builds[b].stack)
                                      ELSE [type |-> "object",
                                            Outputs |-> [n \in {} |-> [Value |-> <<>>]]],
                              !.exitCode = 0]]
    /\ UNCHANGED <<processEnv, environments, prev, last, tagCall, envCall, graph, validCall>>

\* app.synth();
EntrySynth(b) ==
    /\ builds[b].pc = "stack"
    /\ builds[b].kind = "cli"
    /\ builds' = [builds EXCEPT ![b] =
                    [@ EXCEPT !.pc = "done", !.template = Synth(builds[b].stack),
                              !.exitCode = 0]]
    /\ UNCHANGED <<processEnv, environments, prev, last, tagCall, envCall, graph, validCall>>

\* const app = new cdk.App();  (a test)
TestNewApp(b) ==
    /\ builds[b].pc = "idle"
    /\ builds' = [builds EXCEPT ![b] = [@ EXCEPT !.pc = "app", !.kind = "test"]]
    /\ UNCHANGED <<processEnv, environments, prev, last, tagCall, envCall, graph, validCall>>

\* new VideoTranscriberStack(app, 'TestStack', { transcribeLanguage, environment })
TestNewStack(b) ==
    /\ builds[b].pc = "app"
    /\ builds[b].kind = "test"
    /\ \E l \in TestLanguages, e \in TestEnvironments :
          LET props == [transcribeLanguage |-> l, environment |-> e,
                        region |-> Undefined, tags |-> [k \in {} |-> <<>>]]
              made == VideoTranscriberStack(TEST_STACK_ID, props)
          IN  builds' = [builds EXCEPT ![b] =
                            IF made.threw
                                THEN [@ EXCEPT !.pc = "failed", !.props = props,
                                               !.exitCode = 1]
                                ELSE [@ EXCEPT !.pc = "stack", !.props = props,
                                               !.stack = made.stack]]
    /\ UNCHANGED <<processEnv, environments, prev, last, tagCall, envCall, graph, validCall>>

\* const template = Template.fromStack(stack);
TestFromStack(b) ==
    /\ builds[b].pc = "stack"
    /\ builds[b].kind = "test"
    /\ builds' = [builds EXCEPT ![b] =
                    [@ EXCEPT !.pc = "done", !.template = Synth(builds[b].stack),
                              !.exitCode = 0]]
    /\ UNCHANGED <<processEnv, environments, prev, last, tagCall, envCall, graph, validCall>>

----------------------------------------------------------------------------
(* The construct tree of the stack: the Construct Composition of the design *)
(* (design.md, sections 1-6) and the tasks of tasks.md that the TODO of the *)
(* constructor refers to.  A node of the tree carries its identifier, the   *)
(* stage of the graph builder it belongs to, its kind, its physical name    *)
(* and the identifiers of the nodes it references.                          *)

\* the environment of the build whose tree is constructed
GraphEnvironment == ENV_DEV

\* role: 'common' | 'transcribe' | 'mediaConvert' | 'invokeLambda', and the
\* role of the IAMRoles interface each kind stands for
RoleNameOf ==
    [common |-> <<"C", "o", "m", "m", "o", "n", "R", "o", "l", "e", "F", "o", "r", "L", "a", "m", "b", "d", "a">>,
     transcribe |-> <<"T", "r", "a", "n", "s", "c", "r", "i", "b", "e", "R", "o", "l", "e">>,
     mediaConvert |-> <<"M", "e", "d", "i", "a", "C", "o", "n", "v", "e", "r", "t", "R", "o", "l", "e">>,
     invokeLambda |-> <<"I", "n", "v", "o", "k", "e", "L", "a", "m", "b", "d", "a", "R", "o", "l", "e">>]

\* the characters of the logical names of the functions
FunctionChars ==
    [extractaudio |-> <<"e", "x", "t", "r", "a", "c", "t", "a", "u", "d", "i", "o">>,
     getvideos |-> <<"g", "e", "t", "v", "i", "d", "e", "o", "s">>,
     getvideo |-> <<"g", "e", "t", "v", "i", "d", "e", "o">>]

\* lambdaConfigs: the function configurations a configuration can hold
LambdaConfigs ==
    <<[name |-> "extractaudio", role |-> "mediaConvert"],
      [name |-> "getvideos", role |-> "common"],
      [name |-> "getvideo", role |-> "common"]>>

\* the endpoints a configuration can hold; a path is the list of its
\* segments, '/video/{videoId}' is <<"video", "{videoId}">>
EndpointConfigs ==
    <<[path |-> <<"videos">>, method |-> "GET", target |-> "getvideos"],
      [path |-> <<"video", "{videoId}">>, method |-> "GET", target |-> "getvideo"],
      [path |-> <<"video", "{videoId}">>, method |-> "DELETE", target |-> "getvideo"],
      [path |-> <<"caption", "{videoId}">>, method |-> "GET", target |-> "getvideo"]>>

\* the role kinds a configuration can declare
DeclaredRoleSets == SUBSET {"common", "mediaConvert"}

\* the elements of list that are in the set keep, in the order of list
Sublist(list, keep) ==
    LET Kept(x) == x \in keep IN SelectSeq(list, Kept)

Range(list) == {list[i] : i \in 1..Len(list)}

Configurations ==
    {[roles |-> r, functions |-> Sublist(LambdaConfigs, f),
      endpoints |-> Sublist(EndpointConfigs, e)] :
        r \in DeclaredRoleSets,
        f \in SUBSET Range(LambdaConfigs),
        e \in SUBSET Range(EndpointConfigs)}

NoConfiguration == [roles |-> {}, functions |-> <<>>, endpoints |-> <<>>]

NoGraph ==
    [pc |-> "idle", stage |-> 0, config |-> NoConfiguration, nodes |-> <<>>,
     error |-> "none"]

\* the principal that stands for everyone
PUBLIC == <<"*">>

Node(id, stage, kind, name, refs) ==
    [id |-> id, stage |-> stage, kind |-> kind, name |-> name, refs |-> refs,
     parent |-> <<>>, label |-> "", readers |-> {}, triggers |-> {}]

\* a lookup that finds nothing, so that nothing present is reused
HasNode_never(nodes, id) == FALSE

\* the tree has a node with the identifier
HasNode(nodes, id) == \E i \in 1..Len(nodes) : nodes[i].id = id

\* the configuration of a build is loaded; a run starts from an empty graph
LoadConfiguration ==
    /\ graph.pc \in {"idle", "done", "aborted"}
    /\ \E c \in Configurations :
          graph' = [NoGraph EXCEPT !.pc = "loaded", !.config = c]
    /\ UNCHANGED <<processEnv, environments, prev, last, tagCall, envCall, builds, validCall>>

\* the referential pass left out for the functions
UnresolvedRoles_unchecked(config) == {}

\* referential pass: the FunctionSpecs whose role no RoleSpec declares
UnresolvedRoles(config) ==
    {f \in Range(config.functions) : f.role \notin config.roles}

\* referential pass: the EndpointSpecs whose target no FunctionSpec declares
UnresolvedTargets(config) ==
    {e \in Range(config.endpoints) :
        \A f \in Range(config.functions) : f.name # e.target}

\* the validation passes run before the first construct is instantiated; a
\* failure aborts the build with a ValidationError
Validate ==
    /\ graph.pc = "loaded"
    /\ graph' =
          IF UnresolvedRoles(graph.config) # {} \/ UnresolvedTargets(graph.config) # {}
              THEN [graph EXCEPT !.pc = "aborted", !.error = "ValidationError"]
              ELSE [graph EXCEPT !.pc = "build", !.stage = 1]
    /\ UNCHANGED <<processEnv, environments, prev, last, tagCall, envCall, builds, validCall>>

\* the constructs in the order the constructor instantiates them
BUILD_ORDER == <<"Storage", "IAM", "Lambdas", "API", "CDN">>

\* the construct that is instantiated next
NextConstruct ==
    IF graph.pc = "build" /\ graph.stage \in 1..Len(BUILD_ORDER)
        THEN BUILD_ORDER[graph.stage] ELSE "none"

\* the constructs instantiated so far
Instantiated ==
    IF graph.pc \in {"build", "done"}
        THEN {BUILD_ORDER[k] : k \in 1..(graph.stage - 1)} ELSE {}

\* the graph after a construct has added its nodes
Advance(nodes) ==
    [graph EXCEPT !.nodes = nodes,
                  !.stage = @ + 1,
                  !.pc = IF graph.stage = Len(BUILD_ORDER) THEN "done" ELSE "build"]

BucketId(bucketType) == <<"Storage", "bucket", bucketType>>
TableId(tableType) == <<"Storage", "table", tableType>>

\* new StorageConstruct(this, 'Storage', {...}): the four buckets, private,
\* and the three tables
StorageConstruct(nodes) ==
    nodes \o
    <<Node(BucketId("VIDEO"), "Storage", "bucket",
           getS3BucketName(ACCOUNT_ID, US_EAST_1, "VIDEO"), {}),
      Node(BucketId("AUDIO"), "Storage", "bucket",
           getS3BucketName(ACCOUNT_ID, US_EAST_1, "AUDIO"), {}),
      Node(BucketId("TRANSCRIBE"), "Storage", "bucket",
           getS3BucketName(ACCOUNT_ID, US_EAST_1, "TRANSCRIBE"), {}),
      Node(BucketId("PUBLIC"), "Storage", "bucket",
           getS3BucketName(ACCOUNT_ID, US_EAST_1, "PUBLIC"), {}),
      Node(TableId("VIDEO"), "Storage", "table",
           getDynamoDBTableName(GraphEnvironment, "VIDEO"), {}),
      Node(TableId("CAPTION"), "Storage", "table",
           getDynamoDBTableName(GraphEnvironment, "CAPTION"), {}),
      Node(TableId("CONFIG"), "Storage", "table",
           getDynamoDBTableName(GraphEnvironment, "CONFIG"), {})>>

NewStorageConstruct ==
    /\ NextConstruct = "Storage"
    /\ graph' = Advance(StorageConstruct(graph.nodes))
    /\ UNCHANGED <<processEnv, environments, prev, last, tagCall, envCall, builds, validCall>>

RoleId(kind) == <<"IAM", "role", kind>>

\* the role kinds in the order of the IAMRoles interface
RoleOrder == <<"common", "transcribe", "mediaConvert", "invokeLambda">>

\* new IAMConstruct(this, 'IAM', {...}): one role for each declared kind
IAMConstruct(nodes, roles) ==
    LET kinds == Sublist(RoleOrder, roles) IN
    nodes \o [i \in 1..Len(kinds) |->
                Node(RoleId(kinds[i]), "Roles", "role",
                     getIAMRoleName(RoleNameOf[kinds[i]]), {})]

NewIAMConstruct ==
    /\ NextConstruct = "IAM"
    /\ graph' = Advance(IAMConstruct(graph.nodes, graph.config.roles))
    /\ UNCHANGED <<processEnv, environments, prev, last, tagCall, envCall, builds, validCall>>

FunctionId(name) == <<"Lambdas", "function", name>>
LogGroupId(name) == <<"Lambdas", "logGroup", name>>

\* the bucket whose uploads trigger a function
TriggerBucket == [extractaudio |-> "VIDEO"]

\* bucket.addEventNotification: the bucket of the Storage stage records the
\* physical name of the function; it is an attribute, no reference
AddEventNotification(nodes, bucketType, functionName) ==
    [i \in 1..Len(nodes) |->
        IF nodes[i].id = BucketId(bucketType)
            THEN [nodes[i] EXCEPT !.triggers = @ \cup {functionName}]
            ELSE nodes[i]]

\* createFunction(config): the log group first, then the function with its
\* role; then the event notification of the bucket that triggers it
createFunction(nodes, config) ==
    LET physical == getLambdaFunctionName(FunctionChars[config.name])
        created ==
            nodes \o
            <<Node(LogGroupId(config.name), "Compute", "logGroup",
                   getLambdaLogGroupName(FunctionChars[config.name]), {}),
              Node(FunctionId(config.name), "Compute", "function", physical,
                   {RoleId(config.role)})>>
    IN  IF config.name \in DOMAIN TriggerBucket
            THEN AddEventNotification(created, TriggerBucket[config.name], physical)
            ELSE created

RECURSIVE LambdaConstruct(_, _)
\* new LambdaConstruct(this, 'Lambdas', {storage, roles: iam.roles, ...})
LambdaConstruct(nodes, configs) ==
    IF configs = <<>> THEN nodes
    ELSE LambdaConstruct(createFunction(nodes, Head(configs)), Tail(configs))

NewLambdaConstruct ==
    /\ NextConstruct = "Lambdas"
    /\ graph' = Advance(LambdaConstruct(graph.nodes, graph.config.functions))
    /\ UNCHANGED <<processEnv, environments, prev, last, tagCall, envCall, builds, validCall>>

RestApiId == <<"API", "restApi">>
ResourceId(path) == <<"API", "resource">> \o path
MethodId(path, method) == <<"API", "method", method>> \o path

\* the resource of a path: its parent is the resource of the path without
\* the last segment, the root of the API for a path of one segment
ResourceNode(path) ==
    LET parent == IF Len(path) = 1 THEN RestApiId
                  ELSE ResourceId(SubSeq(path, 1, Len(path) - 1))
    IN  [Node(ResourceId(path), "Gateway", "resource", <<>>, {parent})
            EXCEPT !.parent = parent, !.label = path[Len(path)]]

MethodNode(path, method, refs) ==
    [Node(MethodId(path, method), "Gateway", "method", <<>>,
          refs \cup {ResourceId(path)})
        EXCEPT !.parent = ResourceId(path), !.label = method]

RECURSIVE ResourceForPath(_, _, _)
\* the resources of the segments i.. of the path: a segment that is present
\* under its parent is reused, a missing one is added
ResourceForPath(nodes, path, i) ==
    IF i > Len(path) THEN nodes
    ELSE LET prefix == SubSeq(path, 1, i) IN
         ResourceForPath(IF HasNode(nodes, ResourceId(prefix))
                            THEN nodes
                            ELSE Append(nodes, ResourceNode(prefix)),
                         path, i + 1)

\* createEndpoint(config): the resources of the path, then the method with
\* its Lambda integration
createEndpoint(nodes, config) ==
    Append(ResourceForPath(nodes, config.path, 1),
           MethodNode(config.path, config.method, {FunctionId(config.target)}))

\* addCorsOptions(resource): the OPTIONS method of a resource, once
addCorsOptions(nodes, path) ==
    IF HasNode(nodes, MethodId(path, "OPTIONS")) THEN nodes
    ELSE Append(nodes, MethodNode(path, "OPTIONS", {}))

RECURSIVE CreateEndpoints(_, _)
CreateEndpoints(nodes, endpoints) ==
    IF endpoints = <<>> THEN nodes
    ELSE CreateEndpoints(createEndpoint(nodes, Head(endpoints)), Tail(endpoints))

RECURSIVE AddCors(_, _)
AddCors(nodes, endpoints) ==
    IF endpoints = <<>> THEN nodes
    ELSE AddCors(addCorsOptions(nodes, Head(endpoints).path), Tail(endpoints))

\* new APIConstruct(this, 'API', {lambdas: lambdas.functions, ...}): the
\* REST API, the endpoints, then CORS on every resource that has a method
APIConstruct(nodes, endpoints) ==
    LET api == Append(nodes, Node(RestApiId, "Gateway", "restApi",
                                  getAPIGatewayName(GraphEnvironment), {}))
    IN  AddCors(CreateEndpoints(api, endpoints), endpoints)

NewAPIConstruct ==
    /\ NextConstruct = "API"
    /\ graph' = Advance(APIConstruct(graph.nodes, graph.config.endpoints))
    /\ UNCHANGED <<processEnv, environments, prev, last, tagCall, envCall, builds, validCall>>

OriginAccessIdentityId == <<"CDN", "originAccessIdentity">>
DistributionId == <<"CDN", "distribution">>

\* the policy of the bucket after the CDN construct: the readers given
GrantRead(nodes, bucketType, readers) ==
    [i \in 1..Len(nodes) |->
        IF nodes[i].id = BucketId(bucketType)
            THEN [nodes[i] EXCEPT !.readers = readers]
            ELSE nodes[i]]

\* the public bucket left readable by everyone next to the identity
CDNConstruct_publicRead(nodes) ==
    GrantRead(nodes, "PUBLIC", {OriginAccessIdentityId, PUBLIC}) \o
    <<Node(OriginAccessIdentityId, "Edge", "originAccessIdentity", <<>>, {}),
      Node(DistributionId, "Edge", "distribution",
           getCloudFrontDescription(GraphEnvironment),
           {BucketId("PUBLIC"), OriginAccessIdentityId})>>

\* new CDNConstruct(this, 'CDN', {publicBucket: storage.publicBucket, ...}):
\* the origin access identity, the policy of the public bucket that allows
\* the identity and denies direct access, and the distribution
CDNConstruct(nodes) ==
    GrantRead(nodes, "PUBLIC", {OriginAccessIdentityId}) \o
    <<Node(OriginAccessIdentityId, "Edge", "originAccessIdentity", <<>>, {}),
      Node(DistributionId, "Edge", "distribution",
           getCloudFrontDescription(GraphEnvironment),
           {BucketId("PUBLIC"), OriginAccessIdentityId})>>

NewCDNConstruct ==
    /\ NextConstruct = "CDN"
    /\ graph' = Advance(CDNConstruct(graph.nodes))
    /\ UNCHANGED <<processEnv, environments, prev, last, tagCall, envCall, builds, validCall>>

----------------------------------------------------------------------------
(* Specifications *)

Init ==
    /\ processEnv \in [CDK_DEFAULT_REGION : RegionValues]
    /\ environments = environmentsLiteral
    /\ prev = NoCall
    /\ last = NoCall
    /\ tagCall = NoTagCall
    /\ envCall = NoEnvCall
    /\ validCall = NoValidCall
    /\ builds = [b \in Builds |-> NoBuild]
    /\ graph = NoGraph

\* the naming functions
NextNaming ==
    \/ CallGetLambdaFunctionName
    \/ CallGetLambdaLogGroupName
    \/ CallGetS3BucketName
    \/ CallGetDynamoDBTableName
    \/ CallGetIAMRoleName
    \/ CallGetAPIGatewayName
    \/ CallGetCloudFrontDescription
    \/ SetProcessEnv

SpecNaming == Init /\ [][NextNaming]_vars

\* a process whose environment sets no region
InitBucket ==
    /\ Init
    /\ processEnv.CDK_DEFAULT_REGION = Undefined

\* getS3BucketName over ScopeStrings
NextBucket == CallGetS3BucketNameScoped

SpecBucket == InitBucket /\ [][NextBucket]_vars

\* getS3BucketName over the twelve-digit account ids and BoundedRegions
NextBucketBounded == CallGetS3BucketNameBounded

SpecBucketBounded == InitBucket /\ [][NextBucketBounded]_vars

\* getDynamoDBTableName over TableEnvironments
NextTable == CallGetDynamoDBTableNameScoped

SpecTable == InitBucket /\ [][NextTable]_vars

\* getResourceTags
NextTags ==
    \/ CallGetResourceTags
    \/ SetProcessEnv

SpecTags == Init /\ [][NextTags]_vars

\* the environment configuration
NextConfig ==
    \/ CallGetEnvironmentConfig
    \/ SetProcessEnv

SpecConfig == Init /\ [][NextConfig]_vars

\* the environment configuration and the callers that keep a profile
NextProfile ==
    \/ CallGetEnvironmentConfig
    \/ WriteProfile

SpecProfile == InitBucket /\ [][NextProfile]_vars

\* the construction of the tree of one stack, from a process whose
\* environment sets no region
NextGraph ==
    \/ LoadConfiguration
    \/ Validate
    \/ NewStorageConstruct
    \/ NewIAMConstruct
    \/ NewLambdaConstruct
    \/ NewAPIConstruct
    \/ NewCDNConstruct

SpecGraph == InitBucket /\ [][NextGraph]_vars

\* isValidEnvironment and getEnvironmentConfig on the same name
NextValid ==
    \/ CallIsValidEnvironment
    \/ CallGetEnvironmentConfigChecked

SpecValid == InitBucket /\ [][NextValid]_vars

\* the entry point and the tests
NextBuild ==
    \/ \E b \in Builds :
        \/ EntryNewApp(b)
        \/ EntryNewStack(b)
        \/ EntrySynth(b)
        \/ TestNewApp(b)
        \/ TestNewStack(b)
        \/ TestFromStack(b)
    \/ SetProcessEnv

SpecBuild == Init /\ [][NextBuild]_vars

----------------------------------------------------------------------------
(* Properties of the naming functions *)

\* C1: every naming function is deterministic: two calls of one function
\* with equal arguments return equal strings, whatever happened in between
\* and whichever build made them.
NamingDeterministic ==
    (prev.fn = last.fn /\ prev.args = last.args) => prev.result = last.result

\* one function called twice with the same arguments by builds of two
\* different environments
NamingDeterministicWitness ==
    /\ prev.fn = "getLambdaFunctionName"
    /\ last.fn = "getLambdaFunctionName"
    /\ prev.args = last.args
    /\ prev.environment # last.environment

PrefixedFunctions ==
    {"getLambdaFunctionName", "getS3BucketName", "getDynamoDBTableName",
     "getIAMRoleName", "getAPIGatewayName"}

\* C2 as stated: whatever naming function was called, the returned string
\* starts with RESOURCE_PREFIX.
EveryNameStartsWithPrefix ==
    last.fn # "none" => startsWith(last.result, RESOURCE_PREFIX)

\* C2: the names of functions, buckets, tables, roles and the API start with
\* RESOURCE_PREFIX; a log group name is '/aws/lambda/' followed by a name
\* that starts with RESOURCE_PREFIX; the CloudFront description does not
\* start with the prefix.
NamesCarryPrefix ==
    /\ last.fn \in PrefixedFunctions => startsWith(last.result, RESOURCE_PREFIX)
    /\ last.fn = "getLambdaLogGroupName" =>
          startsWith(last.result,
                     <<"/", "a", "w", "s", "/", "l", "a", "m", "b", "d", "a", "/">>
                         \o RESOURCE_PREFIX)
    /\ last.fn = "getCloudFrontDescription" =>
          ~startsWith(last.result, RESOURCE_PREFIX)

NamesCarryPrefixWitness ==
    /\ prev.fn = "getIAMRoleName"
    /\ last.fn = "getLambdaLogGroupName"

HasHyphen(s) == \E i \in 1..Len(s) : s[i] = "-"

\* C3 as stated: two calls of getS3BucketName whose argument triples differ
\* return different names.
BucketNameInjective ==
    (/\ prev.fn = "getS3BucketName"
     /\ last.fn = "getS3BucketName"
     /\ prev.args # last.args) => prev.result # last.result

\* C3: two calls of getS3BucketName whose argument triples differ return
\* different names, provided neither account id contains a hyphen.
BucketNameInjectiveForAccountIds ==
    (/\ prev.fn = "getS3BucketName"
     /\ last.fn = "getS3BucketName"
     /\ prev.args # last.args
     /\ ~HasHyphen(prev.args[1])
     /\ ~HasHyphen(last.args[1])) => prev.result # last.result

\* two calls that differ in the account id and the region only, the region
\* holding a hyphen
BucketNameInjectiveWitness ==
    /\ prev.fn = "getS3BucketName"
    /\ last.fn = "getS3BucketName"
    /\ ~HasHyphen(prev.args[1])
    /\ ~HasHyphen(last.args[1])
    /\ prev.args[1] # last.args[1]
    /\ HasHyphen(prev.args[2])
    /\ prev.args[2] # last.args[2]
    /\ prev.args[3] = last.args[3]

EnvironmentScopedFunctions ==
    {"getLambdaFunctionName", "getLambdaLogGroupName", "getIAMRoleName",
     "getDynamoDBTableName", "getAPIGatewayName"}

\* C4: for a kind that is not globally scoped, the physical names that builds
\* of two different environments get for one logical name are different.
EnvironmentsIsolated ==
    (/\ prev.fn = last.fn
     /\ last.fn \in EnvironmentScopedFunctions
     /\ prev.logical = last.logical
     /\ prev.environment # last.environment) => prev.result # last.result

\* C5: no naming function returns a name longer than the ceiling of its
\* resource kind (a name that would be longer is rejected, not returned).
NameWithinLimit ==
    last.fn \in DOMAIN NameLimit => Len(last.result) <= NameLimit[last.fn]

----------------------------------------------------------------------------
(* Properties of the tags and of the environment configuration *)

\* C6: the result of getResourceTags has the three standard keys and the
\* keys of the overrides and no other; every override key carries the
\* override's value; a standard key that is not overridden carries its
\* standard value.
TagsMerged ==
    tagCall.called =>
        LET result == tagCall.result
            keys == OwnKeys(tagCall.additionalTags)
        IN  /\ DOMAIN result = {"Application", "Environment", "ManagedBy"} \cup keys
            /\ \A k \in keys : result[k] = tagCall.additionalTags.props[k]
            /\ "Application" \notin keys =>
                  result["Application"] =
                      <<"V", "i", "d", "e", "o", "T", "r", "a", "n", "s", "c", "r", "i", "b", "e", "r">>
            /\ "Environment" \notin keys =>
                  result["Environment"] = tagCall.environment
            /\ "ManagedBy" \notin keys =>
                  result["ManagedBy"] = <<"C", "D", "K">>

\* an override of the standard key Environment with another value, together
\* with a key that is not standard
TagsMergedWitness ==
    /\ tagCall.called
    /\ {"Environment", "Project"} \subseteq OwnKeys(tagCall.additionalTags)
    /\ "Application" \notin OwnKeys(tagCall.additionalTags)
    /\ tagCall.additionalTags.props["Environment"] # tagCall.environment

ClosedEnvironmentSet == {ENV_DEV, ENV_STAGING, ENV_PROD}

\* C7: getEnvironmentConfig returns, and returns a profile, exactly when the
\* name in lower case is dev, staging or prod; for every other name it throws.
UnknownEnvironmentThrows ==
    envCall.called =>
        /\ envCall.threw <=> toLowerCase(envCall.name) \notin ClosedEnvironmentSet
        /\ ~envCall.threw => envCall.value.type = "profile"

----------------------------------------------------------------------------
(* Properties of the builds *)

\* C8: a build of the entry point whose environment is outside dev, staging,
\* prod is aborted: it has no stack and no template and ends with a
\* non-zero exit code.
UnknownEnvironmentAborts ==
    \A b \in Builds :
        (/\ builds[b].kind = "cli"
         /\ builds[b].pc \in {"stack", "done", "failed"}
         /\ toLowerCase(builds[b].props.environment) \notin ClosedEnvironmentSet)
        => /\ builds[b].pc = "failed"
           /\ builds[b].exitCode # 0
           /\ builds[b].template = NoTemplate

\* C9: a test that constructs the stack in its own App never fails: the
\* constructor returns a stack, and the template taken from it is defined.
StackCreatesSuccessfully ==
    \A b \in Builds :
        builds[b].kind = "test" =>
            /\ builds[b].pc # "failed"
            /\ builds[b].pc \in {"stack", "done"} => builds[b].stack.type = "object"
            /\ builds[b].pc = "done" => builds[b].template.type = "object"

\* a test with the environment 'test', which is no configured environment,
\* that has its template
StackCreatesSuccessfullyWitness ==
    \E b \in Builds :
        /\ builds[b].kind = "test"
        /\ builds[b].pc = "done"
        /\ builds[b].props.environment = ENV_TEST
        /\ builds[b].template.type = "object"

\* C10: every synthesized template has the outputs StackName, Region and
\* TranscribeLanguage, and the value of TranscribeLanguage is the
\* transcribeLanguage of the props the constructor was given.
TemplateHasOutputs ==
    \A b \in Builds :
        builds[b].template.type = "object" =>
            /\ {"StackName", "Region", "TranscribeLanguage"}
                  \subseteq DOMAIN builds[b].template.Outputs
            /\ builds[b].template.Outputs["TranscribeLanguage"].Value
                  = builds[b].props.transcribeLanguage

\* a template of a stack whose language is not the default of the entry point
TemplateHasOutputsWitness ==
    \E b \in Builds :
        /\ builds[b].template.type = "object"
        /\ builds[b].props.transcribeLanguage = EN_US
        /\ builds[b].template.Outputs["TranscribeLanguage"].Value = EN_US

----------------------------------------------------------------------------
(* Properties of the outputs and of the entry point *)

\* the keys of the outputs manifest
ManifestKeys ==
    {"ApiUrl", "DistributionUrl", "VideoBucketName", "AudioBucketName",
     "TranscribeBucketName", "PublicBucketName", "VideoTableName",
     "CaptionTableName", "ConfigTableName"}

\* C11: the outputs of every template a build has produced are exactly the
\* nine keys of the manifest: each key is present and no other key is.
ManifestHasFixedKeys ==
    \A b \in Builds :
        builds[b].template.type = "object"
            => DOMAIN builds[b].template.Outputs = ManifestKeys

EntryComputesProps(b) ==
    /\ builds[b].kind = "cli"
    /\ builds[b].pc = "app"
    /\ builds'[b].pc # "app"

\* C13 as stated: a context value that is supplied, the empty string
\* included, is the value used; the defaults apply only to an absent one.
ContextUsedWhenSupplied ==
    [][\A b \in Builds :
          EntryComputesProps(b) =>
              LET c == builds[b].context
                  p == builds'[b].props
                  r == processEnv.CDK_DEFAULT_REGION
              IN  /\ p.transcribeLanguage =
                        (IF c.transcribeLanguage = Undefined
                            THEN ZH_CN ELSE c.transcribeLanguage)
                  /\ p.environment =
                        (IF c.environment = Undefined
                            THEN ENV_DEV ELSE c.environment)
                  /\ p.region = (IF r = Undefined THEN US_EAST_1 ELSE r)]_vars

\* C13: a non-empty context value is the value used, an absent or empty one
\* gives 'zh-CN' and 'dev'; the region is CDK_DEFAULT_REGION when it is set
\* to a non-empty string and 'us-east-1' otherwise.
ContextOrDefaults ==
    [][\A b \in Builds :
          EntryComputesProps(b) =>
              LET c == builds[b].context
                  p == builds'[b].props
                  r == processEnv.CDK_DEFAULT_REGION
              IN  /\ p.transcribeLanguage =
                        (IF c.transcribeLanguage \in {Undefined, <<>>}
                            THEN ZH_CN ELSE c.transcribeLanguage)
                  /\ p.environment =
                        (IF c.environment \in {Undefined, <<>>}
                            THEN ENV_DEV ELSE c.environment)
                  /\ p.region = (IF r \in {Undefined, <<>>} THEN US_EAST_1 ELSE r)]_vars

ContextOrDefaultsWitness ==
    \E a, b \in Builds :
        /\ builds[a].kind = "cli"
        /\ builds[a].pc = "done"
        /\ builds[a].context.transcribeLanguage = <<>>
        /\ builds[a].props.transcribeLanguage = ZH_CN
        /\ builds[b].kind = "cli"
        /\ builds[b].pc = "done"
        /\ builds[b].context.transcribeLanguage = EN_US
        /\ builds[b].context.environment = ENV_TEST
        /\ builds[b].props.transcribeLanguage = EN_US
        /\ builds[b].props.environment = ENV_TEST
        /\ builds[b].props.region = EU_WEST_1

\* C14: the profile that getEnvironmentConfig returned for a name has in
\* every field the value the profile of that name had when the module was
\* loaded, also after a caller has written to a profile it obtained.
ProfilesImmutable ==
    (envCall.called /\ envCall.value.type = "profile")
        => envCall.value.value = environmentsLiteral[toLowerCase(envCall.name)]

BuildsIsolated ==
    /\ [](\A a, b \in Builds :
            (/\ a # b
             /\ builds[a].template.type = "object"
             /\ builds[b].template.type = "object"
             /\ builds[a].props.environment # builds[b].props.environment)
                => \A c \in {a, b} :
                      LET p == builds[c].props IN
                      builds[c].template.Outputs =
                          [StackName |->
                              [Value |-> IF builds[c].kind = "cli"
                                            THEN STACK_ID ELSE TEST_STACK_ID],
                           Region |->
                              [Value |-> IF p.region = Undefined
                                            THEN AWS_REGION ELSE p.region],
                           TranscribeLanguage |-> [Value |-> p.transcribeLanguage]])
    /\ [][\A b \in Builds :
            builds'[b] # builds[b] =>
                /\ \A c \in Builds \ {b} : builds'[c] = builds[c]
                /\ environments' = environments
                /\ processEnv' = processEnv]_vars

\* two finished builds for different environments and different languages
BuildsIsolatedWitness ==
    \E a, b \in Builds :
        /\ builds[a].pc = "done"
        /\ builds[b].pc = "done"
        /\ builds[a].props.environment = ENV_DEV
        /\ builds[b].props.environment = ENV_TEST
        /\ builds[a].props.transcribeLanguage = ZH_CN
        /\ builds[b].props.transcribeLanguage = EN_US
        /\ builds[a].template.Outputs["TranscribeLanguage"].Value = ZH_CN
        /\ builds[b].template.Outputs["TranscribeLanguage"].Value = EN_US

----------------------------------------------------------------------------
(* Properties of the construct tree *)

\* C17: the nodes are created in the order Roles, Storage, Compute, Gateway,
\* Edge-Distribution of their stages: no node is created before a node of an
\* earlier stage, and every reference of a node names a node created before
\* it whose stage is its own or an earlier one.
StagesInOrder ==
    LET rank == [Roles |-> 1, Storage |-> 2, Compute |-> 3, Gateway |-> 4, Edge |-> 5]
        n == graph.nodes
    IN  /\ \A i, j \in 1..Len(n) :
              i < j => rank[n[i].stage] <= rank[n[j].stage]
        /\ \A i \in 1..Len(n) : \A r \in n[i].refs :
              \E j \in 1..Len(n) :
                  /\ j < i
                  /\ n[j].id = r
                  /\ rank[n[j].stage] <= rank[n[i].stage]

\* C18: a build whose configuration has a function with an undeclared role
\* never has a node: from the loaded configuration it can only abort, and it
\* aborts with a ValidationError.
BadRoleAbortsBeforeAnyNode ==
    (/\ graph.pc # "idle"
     /\ \E f \in Range(graph.config.functions) : f.role \notin graph.config.roles) =>
        /\ graph.nodes = <<>>
        /\ graph.pc \in {"loaded", "aborted"}
        /\ graph.pc = "aborted" => graph.error = "ValidationError"

\* the build of a configuration whose only fault is the role of extractaudio
BadRoleAbortsBeforeAnyNodeWitness ==
    /\ graph.pc = "aborted"
    /\ graph.error = "ValidationError"
    /\ graph.nodes = <<>>
    /\ graph.config.roles = {"common"}
    /\ \E f \in Range(graph.config.functions) : f.role = "mediaConvert"
    /\ UnresolvedTargets(graph.config) = {}

\* C19: once the API construct is instantiated, every prefix of the path of
\* every endpoint has exactly one resource, no two resources have the same
\* segment under the same parent, and the resource of every endpoint path
\* has exactly one method for each HTTP method declared at that path, with
\* the target function as its reference, exactly one OPTIONS method, and no
\* other method.
PathTreeShared ==
    "API" \in Instantiated =>
        LET n == graph.nodes
            endpoints == Range(graph.config.endpoints)
            resources == {i \in 1..Len(n) : n[i].kind = "resource"}
            methods == {i \in 1..Len(n) : n[i].kind = "method"}
            declared(path) == {e.method : e \in {x \in endpoints : x.path = path}}
        IN  /\ \A i, j \in resources :
                  (n[i].parent = n[j].parent /\ n[i].label = n[j].label) => i = j
            /\ \A e \in endpoints : \A k \in 1..Len(e.path) :
                  Cardinality({i \in resources :
                                  n[i].id = ResourceId(SubSeq(e.path, 1, k))}) = 1
            /\ \A e \in endpoints :
                  /\ Cardinality({i \in methods :
                          /\ n[i].parent = ResourceId(e.path)
                          /\ n[i].label = e.method
                          /\ FunctionId(e.target) \in n[i].refs}) = 1
                  /\ Cardinality({i \in methods :
                          /\ n[i].parent = ResourceId(e.path)
                          /\ n[i].label = "OPTIONS"}) = 1
                  /\ Cardinality({i \in methods : n[i].parent = ResourceId(e.path)})
                        = Cardinality(declared(e.path)) + 1
            /\ \A i \in methods :
                  \E e \in endpoints : n[i].parent = ResourceId(e.path)

\* the tree of the four endpoints: /video/{videoId} has GET and DELETE, and
\* {videoId} is a segment under video and under caption
PathTreeSharedWitness ==
    /\ graph.pc = "done"
    /\ Len(graph.config.endpoints) = Len(EndpointConfigs)
    /\ HasNode(graph.nodes, ResourceId(<<"video", "{videoId}">>))
    /\ HasNode(graph.nodes, ResourceId(<<"caption", "{videoId}">>))
    /\ HasNode(graph.nodes, MethodId(<<"video", "{videoId}">>, "DELETE"))
    /\ HasNode(graph.nodes, MethodId(<<"video", "{videoId}">>, "OPTIONS"))

\* C20: no bucket is ever readable by everyone, and once the CDN construct
\* is instantiated the readers of the public bucket are exactly the origin
\* access identity of the distribution.
PublicBucketReadByIdentityOnly ==
    LET n == graph.nodes IN
    /\ \A i \in 1..Len(n) : PUBLIC \notin n[i].readers
    /\ "CDN" \in Instantiated =>
          /\ \E i \in 1..Len(n) :
                /\ n[i].id = DistributionId
                /\ {BucketId("PUBLIC"), OriginAccessIdentityId} \subseteq n[i].refs
          /\ \E i \in 1..Len(n) : n[i].id = BucketId("PUBLIC")
          /\ \A i \in 1..Len(n) :
                n[i].id = BucketId("PUBLIC") =>
                    n[i].readers = {OriginAccessIdentityId}

\* a finished tree: the distribution exists and the public bucket has a reader
PublicBucketReadByIdentityOnlyWitness ==
    /\ graph.pc = "done"
    /\ HasNode(graph.nodes, DistributionId)
    /\ \E i \in 1..Len(graph.nodes) :
          /\ graph.nodes[i].id = BucketId("PUBLIC")
          /\ graph.nodes[i].readers # {}

----------------------------------------------------------------------------
(* Further properties of the naming functions *)

\* C21: the name getLambdaFunctionName returns for n is RESOURCE_PREFIX, a
\* hyphen and then n, whole: its length is the sum of the three lengths and
\* its tail is n.
FunctionNameKeepsLogicalName ==
    last.fn = "getLambdaFunctionName" =>
        LET n == last.args[1] IN
        /\ last.result = RESOURCE_PREFIX \o <<"-">> \o n
        /\ Len(last.result) = Len(RESOURCE_PREFIX) + 1 + Len(n)
        /\ SubSeq(last.result, Len(RESOURCE_PREFIX) + 2, Len(last.result)) = n

\* 'extractaudio', and then the name whose physical name has 65 characters
FunctionNameKeepsLogicalNameWitness ==
    /\ prev.fn = "getLambdaFunctionName"
    /\ prev.args[1] = <<"e", "x", "t", "r", "a", "c", "t", "a", "u", "d", "i", "o">>
    /\ prev.result = RESOURCE_PREFIX \o <<"-", "e", "x", "t", "r", "a", "c", "t", "a", "u", "d", "i", "o">>
    /\ last.fn = "getLambdaFunctionName"
    /\ last.args[1] = LongName
    /\ Len(last.result) > NameLimit.getLambdaFunctionName

\* C22: the name getLambdaLogGroupName returns for n is '/aws/lambda/'
\* followed by the prefixed name of n, and it is '/aws/lambda/' followed by
\* what getLambdaFunctionName returned for the same n in the call before.
LogGroupAgreesWithFunction ==
    last.fn = "getLambdaLogGroupName" =>
        /\ last.result =
              <<"/", "a", "w", "s", "/", "l", "a", "m", "b", "d", "a", "/">>
                  \o RESOURCE_PREFIX \o <<"-">> \o last.args[1]
        /\ (prev.fn = "getLambdaFunctionName" /\ prev.args = last.args) =>
              last.result =
                  <<"/", "a", "w", "s", "/", "l", "a", "m", "b", "d", "a", "/">>
                      \o prev.result

\* the function name and then the log group name of one function
LogGroupAgreesWithFunctionWitness ==
    /\ prev.fn = "getLambdaFunctionName"
    /\ last.fn = "getLambdaLogGroupName"
    /\ prev.args = last.args
    /\ last.args[1] = <<"t", "r", "a", "n", "s", "c", "r", "i", "b", "e", "a", "u", "d", "i", "o">>
    /\ Len(last.result) = Len(prev.result) + 12

\* C23: two calls of getDynamoDBTableName whose arguments differ, in the
\* environment or in the table type, return different names.
TableNameInjective ==
    (/\ prev.fn = "getDynamoDBTableName"
     /\ last.fn = "getDynamoDBTableName"
     /\ prev.args # last.args)
        => prev.result # last.result

\* the environment of the first call ends like the table name of the second
TableNameInjectiveWitness ==
    /\ prev.fn = "getDynamoDBTableName"
    /\ last.fn = "getDynamoDBTableName"
    /\ prev.args = <<ENV_DEV \o <<"-">> \o TABLE_NAMES["CONFIG"], "VIDEO">>
    /\ last.args = <<ENV_DEV, "CONFIG">>
    /\ prev.result # last.result

\* C24: the bucket name of a twelve-digit account id and a region of at most
\* MaxRegionLen characters, all lowercase letters, digits or hyphens, has at
\* most 63 characters, all of them lowercase letters, digits or hyphens.
BucketNameFitsS3 ==
    LET allowed == {LowerCase[i] : i \in 1..Len(LowerCase)}
                   \cup {"0", "1", "2", "3", "4", "5", "6", "7", "8", "9", "-"}
    IN  (/\ last.fn = "getS3BucketName"
         /\ Len(last.args[1]) = 12
         /\ Len(last.args[2]) <= MaxRegionLen
         /\ \A i \in 1..Len(last.args[1]) : last.args[1][i] \in allowed
         /\ \A i \in 1..Len(last.args[2]) : last.args[2][i] \in allowed)
            => /\ Len(last.result) <= 63
               /\ \A i \in 1..Len(last.result) : last.result[i] \in allowed

\* the longest name: a region of MaxRegionLen characters and the longest
\* suffix, 'transcribe'
BucketNameFitsS3Witness ==
    /\ last.fn = "getS3BucketName"
    /\ Len(last.args[1]) = 12
    /\ Len(last.args[2]) = MaxRegionLen
    /\ last.args[3] = "TRANSCRIBE"
    /\ Len(last.result) = Len(RESOURCE_PREFIX) + Len(BUCKET_SUFFIXES["TRANSCRIBE"])
                            + MaxRegionLen + 15

----------------------------------------------------------------------------
(* Properties of the entry point and the environment configuration *)

\* C25: the template of an entry-point build that was given no
\* transcribeLanguage in its context reports, in TranscribeLanguage, the
\* transcribeLanguage of the profile getEnvironmentConfig returns for the
\* environment of the build.
LanguageDefaultFromProfile ==
    \A b \in Builds :
        (/\ builds[b].kind = "cli"
         /\ builds[b].template.type = "object"
         /\ builds[b].context.transcribeLanguage = Undefined)
            => LET config == getEnvironmentConfig(builds[b].props.environment) IN
               (~config.threw /\ config.value.type = "profile")
                   => builds[b].template.Outputs["TranscribeLanguage"].Value
                          = config.value.value.transcribeLanguage

\* C26: the tags of the stack the entry point creates for environment e are
\* the tags getResourceTags(e) returns: the same keys with the same values.
StackTagsAreResourceTags ==
    \A b \in Builds :
        (builds[b].kind = "cli" /\ builds[b].stack.type = "object")
            => LET standard == getResourceTags(builds[b].props.environment, JsUndefined)
                   tags == builds[b].stack.tags
               IN  /\ DOMAIN tags = DOMAIN standard
                   /\ \A k \in DOMAIN standard : tags[k] = standard[k]

\* C27: for every upper/lower-case variant of 'dev', 'staging' and 'prod',
\* getEnvironmentConfig returns, without throwing, the profile the map
\* holds under the lowercased name, and the name of that profile is the
\* lowercased name.
LookupIgnoresCase ==
    \A e \in {ENV_DEV, ENV_STAGING, ENV_PROD} :
        (envCall.called /\ envCall.name \in CaseVariants(e))
            => /\ ~envCall.threw
               /\ envCall.value.type = "profile"
               /\ envCall.value.value = environments[e]
               /\ envCall.value.value.name = e

\* the lookup of 'StAgInG'
LookupIgnoresCaseWitness ==
    /\ envCall.called
    /\ envCall.name = <<"S", "t", "A", "g", "I", "n", "G">>
    /\ ~envCall.threw
    /\ envCall.value.type = "profile"
    /\ envCall.value.value.name = ENV_STAGING

\* C28: for a name given to both functions, isValidEnvironment returns true
\* exactly when getEnvironmentConfig returns a profile, and false exactly
\* when getEnvironmentConfig throws.
EnvironmentChecksAgree ==
    (validCall.called /\ envCall.called /\ validCall.name = envCall.name)
        => /\ validCall.result <=> (~envCall.threw /\ envCall.value.type = "profile")
           /\ ~validCall.result <=> envCall.threw

\* C29: every profile held by the environments map, and every profile a
\* lookup returns, is internally consistent: apiCacheTTL is defined exactly
\* when enableAPICache is true, the burst limit is at least the rate limit,
\* s3GlacierTransitionDays, when defined, is less than s3ExpirationDays, and
\* logRetentionDays is 3 for dev, 7 for staging and 30 for prod.
ProfilesConsistent ==
    LET Retention(n) == IF n = ENV_DEV THEN 3 ELSE IF n = ENV_STAGING THEN 7 ELSE 30
        Consistent(key, p) ==
            /\ ("apiCacheTTL" \in DOMAIN p) <=> p.enableAPICache
            /\ p.apiThrottleBurstLimit >= p.apiThrottleRateLimit
            /\ ("s3GlacierTransitionDays" \in DOMAIN p)
                  => p.s3GlacierTransitionDays < p.s3ExpirationDays
            /\ key \in {ENV_DEV, ENV_STAGING, ENV_PROD}
            /\ p.logRetentionDays = Retention(key)
    IN  /\ DOMAIN environments = {ENV_DEV, ENV_STAGING, ENV_PROD}
        /\ \A key \in DOMAIN environments : Consistent(key, environments[key])
        /\ (envCall.called /\ ~envCall.threw /\ envCall.value.type = "profile")
              => Consistent(toLowerCase(envCall.name), envCall.value.value)

\* a lookup has returned the dev profile, which has neither cache nor Glacier
\* transition, while staging and prod in the map have both
ProfilesConsistentWitness ==
    /\ envCall.called
    /\ ~envCall.threw
    /\ envCall.value.type = "profile"
    /\ envCall.value.value.name = ENV_DEV
    /\ ~envCall.value.value.enableAPICache
    /\ "apiCacheTTL" \notin DOMAIN envCall.value.value
    /\ "s3GlacierTransitionDays" \in DOMAIN environments[ENV_PROD]
    /\ environments[ENV_STAGING].enableAPICache

====
